---- MODULE Spec2Model ----
(***************************************************************************)
(* EC-Schnorr signatures (BSI TR-03111, 4.2.3) as implemented by          *)
(* libSchnorr: Schnorr::Sign, Schnorr::Verify and ECPOINTSerialize.        *)
(*                                                                         *)
(* The curve is y^2 = x^3 + 7 as in secp256k1, over a small prime field    *)
(* so that the group (of prime order) can be enumerated.  The byte layout  *)
(* of a compressed point (prefix 02/03, then x as 32 big-endian bytes) and *)
(* the width of the unsigned int arguments (32 bits) are kept.             *)
(***************************************************************************)
EXTENDS Integers, Sequences, FiniteSets, TLC

\* ------------------------------------------------------------ bounds
MaxMsgLen == 2
MaxBufLen == 2
MaxOffset == 2
MaxCalls == 2

\* ------------------------------------------------------------ curve context
\* Schnorr::Curve: the group of NID_secp256k1 (scaled) and its order.
FieldP == 13
CurveB == 7
CurveOrder == 7
GenX == 7
GenY == 5

PUBKEY_COMPRESSED_SIZE_BYTES == 33

Infinity == [inf |-> TRUE, x |-> 0, y |-> 0]
Pt(px, py) == [inf |-> FALSE, x |-> px, y |-> py]

OnCurve(px, py) == (py * py) % FieldP = (px * px * px + CurveB) % FieldP

CurvePoints ==
  {Pt(px, py) : <<px, py>> \in {q \in (0..FieldP-1) \X (0..FieldP-1) : OnCurve(q[1], q[2])}}

Generator == Pt(GenX, GenY)

FieldInv(a) == CHOOSE i \in 1..FieldP-1 : (i * a) % FieldP = 1

PointAdd(A, B) ==
  IF A.inf THEN B
  ELSE IF B.inf THEN A
  ELSE IF A.x = B.x /\ (A.y + B.y) % FieldP = 0 THEN Infinity
  ELSE LET lam == IF A = B
                  THEN (3 * A.x * A.x * FieldInv((2 * A.y) % FieldP)) % FieldP
                  ELSE ((B.y - A.y) * FieldInv((B.x - A.x) % FieldP)) % FieldP
           x3  == (lam * lam - A.x - B.x) % FieldP
           y3  == (lam * (A.x - x3) - A.y) % FieldP
       IN  Pt(x3, y3)

RECURSIVE ScalarMul(_, _)
ScalarMul(m, A) == IF m = 0 THEN Infinity ELSE PointAdd(A, ScalarMul(m - 1, A))

\* The multiples of the base point, m*G for m in 0..n-1.
GTable == [m \in 0..CurveOrder-1 |-> ScalarMul(m, Generator)]

\* EC_POINT_mul(group, out, gscalar, point, pscalar, ctx) = gscalar*G + pscalar*point;
\* scalars are taken modulo the group order.
EcPointMul(gscalar, point, pscalar) ==
  PointAdd(GTable[gscalar % CurveOrder], ScalarMul(pscalar % CurveOrder, point))

\* class Schnorr::Curve: m_group and m_order as its constructor leaves them
\* (EC_GROUP_new_by_curve_name, then EC_GROUP_get_order into m_order).
TheCurve ==
  [m_group |-> [p |-> FieldP, b |-> CurveB, gx |-> GenX, gy |-> GenY, n |-> CurveOrder],
   m_order |-> CurveOrder]

NoGroup == [p |-> 0, b |-> 0, gx |-> 0, gy |-> 0, n |-> 0]

\* Schnorr::m_curve: a unique_ptr of static storage duration.  It is
\* zero-initialized (null) when the program is loaded and gets its value from
\* its initializer make_unique<Schnorr::Curve>() when the objects of its
\* translation unit are initialized.
NullCurve == [null |-> TRUE, obj |-> [m_group |-> NoGroup, m_order |-> 0]]
ReadyCurve == [null |-> FALSE, obj |-> TheCurve]

\* return m_curve->m_group.get();  return m_curve->m_order.get();
GetCurveGroup(mc) == mc.obj.m_group
GetCurveOrder(mc) == mc.obj.m_order

\* ------------------------------------------------------------ octets
Zeros(len) == [i \in 1..len |-> 0]

RECURSIVE BnToBin(_)
\* BN_bn2bin: the minimal big-endian octets of a non-negative integer.
BnToBin(v) == IF v = 0 THEN <<>> ELSE Append(BnToBin(v \div 256), v % 256)

RECURSIVE StripZeros(_)
\* BN_bin2bn keeps the magnitude only: leading zero octets carry no value.
StripZeros(b) == IF b # <<>> /\ Head(b) = 0 THEN StripZeros(Tail(b)) ELSE b

RECURSIVE BinToInt(_)
BinToInt(b) == IF b = <<>> THEN 0 ELSE BinToInt(SubSeq(b, 1, Len(b) - 1)) * 256 + b[Len(b)]

\* EC_POINT_point2oct(..., POINT_CONVERSION_COMPRESSED, ...): one zero octet for
\* the point at infinity, else the prefix 02/03 (parity of y) and x on 32 octets.
Point2Oct(A) ==
  IF A.inf THEN <<0>>
  ELSE LET xb == BnToBin(A.x)
       IN  <<2 + (A.y % 2)>> \o Zeros(PUBKEY_COMPRESSED_SIZE_BYTES - 1 - Len(xb)) \o xb

\* ------------------------------------------------------------ SHA2<HASH_VARIANT_256>
\* The hash object is its chaining value: the constructor and Reset set it to
\* the initial value, Update absorbs octets, Finalize gives the digest (read
\* as an integer, as BN_bin2bn reads the digest octets).  The compression
\* h -> (HashMul*h + octet + 1) mod HashMod stands in for SHA-256.
HashMod == 32749
HashIV == 5381
HashMul == 31

RECURSIVE HashSeg(_, _, _)
\* A run of octets acts on h as h -> (a*h + b) mod HashMod; HashSeg gives
\* <<a, b>> of the run data[lo..hi] by halving it.
HashSeg(data, lo, hi) ==
  IF lo > hi THEN <<1, 0>>
  ELSE IF lo = hi THEN <<HashMul, (data[lo] + 1) % HashMod>>
  ELSE LET mid == (lo + hi) \div 2
           L   == HashSeg(data, lo, mid)
           R   == HashSeg(data, mid + 1, hi)
       IN  <<(L[1] * R[1]) % HashMod, (R[1] * L[2] + R[2]) % HashMod>>

ShaUpdate(ctx, data) ==
  LET ab == HashSeg(data, 1, Len(data)) IN (ab[1] * ctx + ab[2]) % HashMod

\* Update with the 33 octets of a point: the action of every point's octets is
\* tabulated once.
OctSeg == [A \in CurvePoints \cup {Infinity} |-> HashSeg(Point2Oct(A), 1, Len(Point2Oct(A)))]

ShaUpdatePoint(ctx, A) == (OctSeg[A][1] * ctx + OctSeg[A][2]) % HashMod

ShaFinalize(ctx) == ctx

ShaReset(ctx) == HashIV

\* ------------------------------------------------------------ unsigned int
\* offset and size are unsigned int: 32 bits, held as two 16-bit halves.
Two16 == 65536

U32(h, l) == [hi |-> h, lo |-> l]

Add32(a, b) ==
  LET l == a.lo + b.lo
  IN  U32((a.hi + b.hi + (l \div Two16)) % Two16, l % Two16)

U32Max == U32(Two16 - 1, Two16 - 1)

\* message.size() < (offset + size): the sum is formed in unsigned int and only
\* then widened to size_t for the comparison (message lengths here are < 2^16).
WindowRejected(len, off, sz) ==
  LET sum == Add32(off, sz) IN sum.hi > 0 \/ len < sum.lo

\* offset + size <= message length, the sum taken in the integers.
WindowInside(len, off, sz) == off.hi = 0 /\ sz.hi = 0 /\ off.lo + sz.lo <= len

\* What sha2.Update(message, offset, size) reads.  A window that passed the
\* check but lies outside the message is read out of bounds: the call crashes
\* or feeds the hash whatever octets lie there.
NoOob == [crash |-> FALSE, bytes |-> <<>>]

OobReads ==
  {[crash |-> TRUE, bytes |-> <<>>]} \cup {[crash |-> FALSE, bytes |-> b] : b \in {<<>>, <<0>>, <<1>>}}

ReadsOutOfBounds(msg, off, sz) ==
  /\ Len(msg) # 0
  /\ ~WindowRejected(Len(msg), off, sz)
  /\ ~WindowInside(Len(msg), off, sz)

WindowRead(msg, off, sz, oob) ==
  IF WindowInside(Len(msg), off, sz)
  THEN [crash |-> FALSE, bytes |-> SubSeq(msg, off.lo + 1, off.lo + sz.lo)]
  ELSE oob

\* ------------------------------------------------------------ Sign, Verify: the arithmetic
\* r = H(Q, kpub, m) mod order: BN_bin2bn of the digest, then BN_nnmod.
Challenge(ctx) == ShaFinalize(ctx) % CurveOrder

\* The octets hashed for a commitment Q, a public key and the window's bytes.
ChallengeInput(ctx, Q, pub, data) ==
  ShaUpdate(ShaUpdatePoint(ShaUpdatePoint(ctx, Q), pub), data)

ResponseAdd(kk, r, d) == (kk + ((r * d) % CurveOrder)) % CurveOrder

\* s = k - r*kpriv mod order: BN_mod_mul, then BN_mod_sub.
Response(kk, r, d) == (kk - ((r * d) % CurveOrder)) % CurveOrder

RoundEndNoReset(ctx) == ctx

\* sha2.Reset() at the end of a round: the next round hashes afresh.
RoundEnd(ctx) == ShaReset(ctx)

ResOnlyR(r, s) == r = 0

ResUnlessSZero(r, s) == r = 0 \/ s # 0

\* res = BN_is_zero(r) || BN_is_zero(s): the round is repeated when res is set.
Res(r, s) == r = 0 \/ s = 0

InRangeWithZero(v) == ~(v < 0 \/ v >= CurveOrder)

\* 1. Check if r,s is in [1, ..., order-1]: not zero, not negative, below the order.
InRange(v) == ~(v = 0 \/ v < 0 \/ v >= CurveOrder)

RegenCommitSwapped(sig, pub) == EcPointMul(sig.r, pub, sig.s)

\* 2. Compute Q = sG + r*kpub
RegenCommit(sig, pub) == EcPointMul(sig.s, pub, sig.r)

\* Schnorr::Verify(message, offset, size, toverify, pubkey).  fail names the
\* library call that fails in this call (if any); read is what the hash
\* reads of the message window.
Verify(msg, off, sz, sig, pub, fail, read) ==
  IF Len(msg) = 0 THEN "false"
  ELSE IF WindowRejected(Len(msg), off, sz) THEN "false"
  ELSE IF fail = "alloc" THEN "false"
  ELSE IF ~InRange(sig.r) THEN "false"
  ELSE IF ~InRange(sig.s) THEN "false"
  ELSE IF fail = "mul" THEN "false"
  ELSE LET Q == RegenCommit(sig, pub)
       IN  IF Q.inf THEN "false"
           ELSE IF Len(Point2Oct(Q)) # PUBKEY_COMPRESSED_SIZE_BYTES THEN "false"
           ELSE IF Len(Point2Oct(pub)) # PUBKEY_COMPRESSED_SIZE_BYTES THEN "false"
           ELSE IF read.crash THEN "crash"
           ELSE IF Challenge(ChallengeInput(HashIV, Q, pub, read.bytes)) = sig.r
                THEN "true" ELSE "false"

\* ------------------------------------------------------------ BIGNUMSerialize
\* A BIGNUM is held here by its magnitude octets (BN_bn2bin: no leading zero).
\* Fixed width, big-endian, left-zero-padded; the buffer grows as needed; a
\* value wider than the field is not written.
NoBn == [null |-> TRUE, bn |-> <<>>]

BIGNUM_SetNumber(buf, off, len, bn) ==
  IF Len(bn) > len THEN buf
  ELSE LET grown  == IF Len(buf) < off + len THEN buf \o Zeros(off + len - Len(buf)) ELSE buf
           padded == Zeros(len - Len(bn)) \o bn
       IN  [i \in 1..Len(grown) |->
              IF i > off /\ i <= off + len THEN padded[i - off] ELSE grown[i]]

\* Reads exactly len octets at off; a read past the end of the buffer fails.
BIGNUM_GetNumber(buf, off, len) ==
  IF off + len > Len(buf) THEN NoBn
  ELSE [null |-> FALSE, bn |-> StripZeros(SubSeq(buf, off + 1, off + len))]

\* ------------------------------------------------------------ ECPOINTSerialize
NoPoint == [null |-> TRUE, pt |-> Infinity]

\* x < p for the octets of a coordinate (p < 256 here).
XInField(b) == LET m == StripZeros(b) IN Len(m) <= 1 /\ BinToInt(m) < FieldP

\* EC_POINT_set_compressed_coordinates: the y of the given parity, if x is on the curve.
Decompress(px, ybit) ==
  LET ys == {py \in 0..FieldP-1 : OnCurve(px, py) /\ py % 2 = ybit}
  IN  IF ys = {} THEN NoPoint ELSE [null |-> FALSE, pt |-> Pt(px, CHOOSE py \in ys : TRUE)]

\* EC_POINT_oct2point: the form is the first octet without its low bit; 0 is
\* the point at infinity (one octet), 2 a compressed point (33 octets), 4 and 6
\* an uncompressed or hybrid point (65 octets).
Oct2Point(o) ==
  IF o = <<>> THEN NoPoint
  ELSE LET ybit == o[1] % 2
           form == o[1] - ybit
       IN  IF form \notin {0, 2, 4, 6} THEN NoPoint
           ELSE IF form \in {0, 4} /\ ybit = 1 THEN NoPoint
           ELSE IF form = 0
                THEN (IF Len(o) = 1 THEN [null |-> FALSE, pt |-> Infinity] ELSE NoPoint)
           ELSE IF form = 2
                THEN (IF Len(o) # PUBKEY_COMPRESSED_SIZE_BYTES THEN NoPoint
                      ELSE IF ~XInField(Tail(o)) THEN NoPoint
                      ELSE Decompress(BinToInt(StripZeros(Tail(o))), ybit))
           ELSE LET flen == PUBKEY_COMPRESSED_SIZE_BYTES - 1
                    xo   == SubSeq(o, 2, 1 + flen)
                    yo   == SubSeq(o, 2 + flen, 1 + 2 * flen)
                IN  IF Len(o) # 1 + 2 * flen THEN NoPoint
                    ELSE IF ~XInField(xo) \/ ~XInField(yo) THEN NoPoint
                    ELSE LET px == BinToInt(StripZeros(xo))
                             py == BinToInt(StripZeros(yo))
                         IN  IF ~OnCurve(px, py) THEN NoPoint
                             ELSE IF form = 6 /\ py % 2 # ybit THEN NoPoint
                             ELSE [null |-> FALSE, pt |-> Pt(px, py)]

\* EC_POINT_point2bn(group, point, POINT_CONVERSION_COMPRESSED, NULL, ctx):
\* the point's octets read as a BIGNUM.
EC_POINT_point2bn(A) == StripZeros(Point2Oct(A))

\* EC_POINT_bn2point(group, bn, NULL, ctx): the BIGNUM's octets read as a
\* point.  For a zero BIGNUM the library either gives no point or reads one
\* zero octet, by its version: zeroAsOctet says which.
EC_POINT_bn2point(bn, zeroAsOctet) ==
  IF bn = <<>> THEN (IF zeroAsOctet THEN Oct2Point(<<0>>) ELSE NoPoint)
  ELSE Oct2Point(bn)

ECPOINT_SetNumberAtZero(buf, off, len, value, fail) ==
  IF fail # "none" THEN buf
  ELSE BIGNUM_SetNumber(buf, 0, len, EC_POINT_point2bn(value))

\* ECPOINTSerialize::SetNumber(dst, offset, size, value); fail names the
\* library call that fails (BN_CTX_new: bad_alloc; EC_POINT_point2bn: return).
ECPOINT_SetNumber(buf, off, len, value, fail) ==
  IF fail # "none" THEN buf
  ELSE BIGNUM_SetNumber(buf, off, len, EC_POINT_point2bn(value))

\* ECPOINTSerialize::GetNumber(src, offset, size): nullptr when the scalar
\* cannot be read or the library gives no point (bad_alloc when BN_CTX_new fails).
ECPOINT_GetNumber(buf, off, len, fail, zeroAsOctet) ==
  LET bnvalue == BIGNUM_GetNumber(buf, off, len)
  IN  IF bnvalue.null THEN NoPoint
      ELSE IF fail # "none" THEN NoPoint
      ELSE EC_POINT_bn2point(bnvalue.bn, zeroAsOctet)

\* ------------------------------------------------------------ multi-signature (aggregator's arithmetic)
\* Two signers (d1, k1) and (d2, k2) on message m.
AggPoint(a, b) == PointAdd(GTable[a], GTable[b])

MultiSigChallenge(d1, k1, d2, k2, m) ==
  Challenge(ChallengeInput(HashIV, AggPoint(k1, k2), AggPoint(d1, d2), m))

MultiSigResponse(d1, k1, d2, k2, m) ==
  LET r == MultiSigChallenge(d1, k1, d2, k2, m)
  IN  (Response(k1, r, d1) + Response(k2, r, d2)) % CurveOrder

\* ------------------------------------------------------------ state
VARIABLES
  message, offset, size,   \* the bytes and the window handed to Sign and Verify
  privkey, pubkey,         \* the signer's key pair: PrivKey::m_d, PubKey::m_P
  pc,                      \* where the current call stands
  k,                       \* Sign: the nonce of the current round
  result,                  \* Sign: the Signature written to (m_r, m_s)
  sha,                     \* Sign: what the SHA2 object holds
  retried,                 \* Sign: some round of this call was rejected
  sret,                    \* Sign: how the call ended
  first,                   \* the nonce and signature of the first successful Sign
  ver,                     \* the last Verify call: its arguments and outcome
  dst, soff, sval, sfail,  \* ECPOINTSerialize::SetNumber: buffer, offset, point, failing call
  got, gfail,              \* ECPOINTSerialize::GetNumber: decoded point, failing call
  m_curve,                 \* Schnorr::m_curve
  cinit,                   \* how far the start of the program has come
  built,                   \* how many times Curve() has run
  seen                     \* per caller: its calls of GetCurveGroup / GetCurveOrder

vars == <<message, offset, size, privkey, pubkey, pc, k, result, sha, retried,
          sret, first, ver, dst, soff, sval, sfail, got, gfail,
          m_curve, cinit, built, seen>>

curveVars == <<m_curve, cinit, built, seen>>

\* What Sign and Verify only read: their arguments and the curve context.
keyVars == <<message, offset, size, privkey, pubkey, curveVars>>
serVars == <<dst, soff, sval, sfail, got, gfail>>

MsgBytes == {0, 1}
Messages == UNION {[1..len -> MsgBytes] : len \in 0..MaxMsgLen}
Offsets == {U32(0, 0), U32(0, 1), U32Max}
Sizes == {U32(0, 0), U32(0, 1), U32(0, 2), U32Max}
PrivKeys == 1..CurveOrder-1
Fails == {"none", "alloc", "mul"}
\* Scalars a Signature object can hold: in range, zero, the order, negative.
SigScalars == (-1)..CurveOrder

NoSig == [set |-> FALSE, k |-> 0, r |-> 0, s |-> 0]
NoVer == [kind |-> "none", off |-> U32(0, 0), size |-> U32(0, 0),
          sig |-> [r |-> 0, s |-> 0], pub |-> Infinity, fail |-> "none",
          read |-> NoOob, ret |-> "none"]
\* Who calls GetCurveGroup and GetCurveOrder: the initializer of an object of
\* static storage duration in another translation unit, and threads of main.
Threads == {"thread1", "thread2"}
Callers == {"other_tu"} \cup Threads
Getters == {"GetCurveGroup", "GetCurveOrder"}

NoCall == [n |-> 0, fn |-> "none", how |-> "none", group |-> NoGroup, order |-> 0]
NoCalls == [c \in Callers |-> NoCall]

\* The curve context once the program runs main.
CurveReady ==
  /\ m_curve = ReadyCurve
  /\ cinit = "main"
  /\ built = 1
  /\ seen = NoCalls

Init ==
  /\ message \in Messages
  /\ offset \in Offsets
  /\ size \in Sizes
  /\ privkey \in PrivKeys
  /\ pubkey = GTable[privkey]
  /\ pc = "idle"
  /\ k = 0
  /\ result = [r |-> 0, s |-> 0]
  /\ sha = HashIV
  /\ retried = FALSE
  /\ sret = "none"
  /\ first = NoSig
  /\ ver = NoVer
  /\ dst = <<>> /\ soff = 0 /\ sval = Infinity /\ sfail = "none"
  /\ got = NoPoint /\ gfail = "none"
  /\ CurveReady

\* ------------------------------------------------------------ Schnorr::Sign
\* The initial checks and the allocation of k, Q and ctx, on a fresh Signature.
SignEnter ==
  /\ k' = 0
  /\ result' = [r |-> 0, s |-> 0]
  /\ sha' = HashIV
  /\ retried' = FALSE
  /\ \E allocOk \in BOOLEAN :
       IF Len(message) = 0 THEN pc' = "sign_done" /\ sret' = "false"
       ELSE IF WindowRejected(Len(message), offset, size)
            THEN pc' = "sign_done" /\ sret' = "false"
       ELSE IF ~allocOk THEN pc' = "sign_done" /\ sret' = "threw"
       ELSE pc' = "sign_nonce" /\ sret' = "none"
  /\ UNCHANGED <<keyVars, ver, serVars>>

SignCall ==
  /\ pc = "idle"
  /\ UNCHANGED first
  /\ SignEnter

\* A second call with the same arguments, after one that succeeded: the nonce
\* and the signature of the first are kept for comparison.
SignAgain ==
  /\ pc = "sign_done" /\ sret = "true" /\ ~first.set
  /\ first' = [set |-> TRUE, k |-> k, r |-> result.r, s |-> result.s]
  /\ SignEnter

\* 1. Generate a random k from [1, ..., order-1]: BN_generate_dsa_nonce draws
\* 0 <= k < order (or fails); a zero k is drawn again.
\* BN_generate_dsa_nonce fails: Sign returns false.
SignNonceFails ==
  /\ pc = "sign_nonce"
  /\ pc' = "sign_done" /\ sret' = "false"
  /\ UNCHANGED k
  /\ UNCHANGED <<keyVars, result, sha, retried, first, ver, serVars>>

\* BN_generate_dsa_nonce gives kk; while (BN_is_zero(k)) sends a zero back.
SignDraw(kk) ==
  /\ pc = "sign_nonce"
  /\ k' = kk
  /\ pc' = IF kk = 0 THEN "sign_nonce" ELSE "sign_round"
  /\ UNCHANGED sret
  /\ UNCHANGED <<keyVars, result, sha, retried, first, ver, serVars>>

SignNonce == SignNonceFails \/ \E kk \in 0..CurveOrder-1 : SignDraw(kk)

\* 2.-6. One round: Q = kG, r = H(Q, kpub, m) mod order, s = k - r*kpriv mod
\* order, res, sha2.Reset(); the loop goes round again while res is set.
SignRound ==
  /\ pc = "sign_round"
  /\ \E mulOk \in BOOLEAN,
        oob \in (IF ReadsOutOfBounds(message, offset, size) THEN OobReads ELSE {NoOob}) :
       LET Q    == EcPointMul(k, Infinity, 0)
           read == WindowRead(message, offset, size, oob)
           ctx  == ChallengeInput(sha, Q, pubkey, read.bytes)
           r    == Challenge(ctx)
           s    == Response(k, r, privkey)
       IN  IF ~mulOk
              \/ Len(Point2Oct(Q)) # PUBKEY_COMPRESSED_SIZE_BYTES
              \/ Len(Point2Oct(pubkey)) # PUBKEY_COMPRESSED_SIZE_BYTES
           THEN /\ pc' = "sign_done" /\ sret' = "false"
                /\ UNCHANGED <<result, sha, retried>>
           ELSE IF read.crash
           THEN /\ pc' = "sign_done" /\ sret' = "crash"
                /\ UNCHANGED <<result, sha, retried>>
           ELSE /\ result' = [r |-> r, s |-> s]
                /\ sha' = RoundEnd(ctx)
                /\ IF Res(r, s)
                   THEN pc' = "sign_nonce" /\ retried' = TRUE /\ UNCHANGED sret
                   ELSE pc' = "sign_done" /\ sret' = "true" /\ UNCHANGED retried
  /\ UNCHANGED <<keyVars, k, first, ver, serVars>>

\* ------------------------------------------------------------ Schnorr::Verify
VerifyRecord(kind, off, sz, sig, pub, fail, oob) ==
  LET read == WindowRead(message, off, sz, oob)
  IN  [kind |-> kind, off |-> off, size |-> sz, sig |-> sig, pub |-> pub,
       fail |-> fail, read |-> read,
       ret |-> Verify(message, off, sz, sig, pub, fail, read)]

\* Verify of the signature Sign has just returned, same message, window and key.
VerifySigned ==
  /\ pc = "sign_done" /\ sret = "true"
  /\ \E fail \in Fails,
        oob \in (IF ReadsOutOfBounds(message, offset, size) THEN OobReads ELSE {NoOob}) :
       ver' = VerifyRecord("signed", offset, size, result, pubkey, fail, oob)
  /\ pc' = "verify_done"
  /\ UNCHANGED <<keyVars, k, result, sha, retried, sret, first, serVars>>

\* Verify of any Signature object under the key or under the identity point.
VerifyAny ==
  /\ pc = "idle"
  /\ \E rr \in SigScalars, ss \in SigScalars, pub \in {pubkey, Infinity}, fail \in Fails,
        oob \in (IF ReadsOutOfBounds(message, offset, size) THEN OobReads ELSE {NoOob}) :
       ver' = VerifyRecord("any", offset, size, [r |-> rr, s |-> ss], pub, fail, oob)
  /\ pc' = "verify_done"
  /\ UNCHANGED <<keyVars, k, result, sha, retried, sret, first, serVars>>

\* Verify(message, toverify, pubkey) of an aggregated signature of two signers
\* under the aggregated key: the whole message is the window.
VerifyMultiSig ==
  /\ pc = "idle"
  /\ \E d2 \in PrivKeys, k1 \in PrivKeys, k2 \in PrivKeys, fail \in Fails :
       LET r == MultiSigChallenge(privkey, k1, d2, k2, message)
           s == MultiSigResponse(privkey, k1, d2, k2, message)
       IN  /\ ~AggPoint(k1, k2).inf
           /\ r # 0
           /\ s # 0
           /\ ver' = VerifyRecord("multisig", U32(0, 0), U32(0, Len(message)),
                                  [r |-> r, s |-> s], AggPoint(privkey, d2), fail, NoOob)
  /\ pc' = "verify_done"
  /\ UNCHANGED <<keyVars, k, result, sha, retried, sret, first, serVars>>

Next == SignCall \/ SignNonce \/ SignRound \/ VerifySigned \/ VerifyAny \/ VerifyMultiSig

Spec == Init /\ [][Next]_vars

\* One call of Sign, run to its end.  The nonces are random draws: a value
\* that can be drawn again and again is drawn at some time; a round that has
\* its nonce is carried out.
NextSign == SignCall \/ SignNonce \/ SignRound

SpecSign ==
  /\ Init
  /\ [][NextSign]_vars
  /\ WF_vars(SignRound)
  /\ \A kk \in 1..CurveOrder-1 : SF_vars(SignDraw(kk))

\* Sign called twice with the same arguments.
NextResign == SignCall \/ SignAgain \/ SignNonce \/ SignRound

SpecResign == Init /\ [][NextResign]_vars

\* ------------------------------------------------------------ point serialization
BufBytes == {0, 3, 255}
Buffers == UNION {[1..len -> BufBytes] : len \in 0..MaxBufLen}
SerFails == {"none", "alloc", "lib"}

sigVars == <<message, offset, size, privkey, pubkey, k, result, sha, retried,
             sret, first, ver, curveVars>>

InitSer ==
  /\ message = <<>> /\ offset = U32(0, 0) /\ size = U32(0, 0)
  /\ privkey = 1 /\ pubkey = GTable[1]
  /\ k = 0 /\ result = [r |-> 0, s |-> 0] /\ sha = HashIV /\ retried = FALSE
  /\ sret = "none" /\ first = NoSig /\ ver = NoVer
  /\ pc = "ser_idle"
  /\ dst \in Buffers
  /\ soff \in 0..MaxOffset
  /\ sval \in CurvePoints \cup {Infinity}
  /\ sfail = "none"
  /\ got = NoPoint /\ gfail = "none"
  /\ CurveReady

\* SetNumber(dst, offset, PUBKEY_COMPRESSED_SIZE_BYTES, value)
SerSet ==
  /\ pc = "ser_idle"
  /\ \E fail \in SerFails :
       /\ sfail' = fail
       /\ dst' = ECPOINT_SetNumber(dst, soff, PUBKEY_COMPRESSED_SIZE_BYTES, sval, fail)
  /\ pc' = "ser_set"
  /\ UNCHANGED <<sigVars, soff, sval, got, gfail>>

\* GetNumber(dst, offset, PUBKEY_COMPRESSED_SIZE_BYTES) on the buffer written to
SerGet ==
  /\ pc = "ser_set"
  /\ \E fail \in {"none", "alloc"}, zeroAsOctet \in BOOLEAN :
       /\ gfail' = fail
       /\ got' = ECPOINT_GetNumber(dst, soff, PUBKEY_COMPRESSED_SIZE_BYTES, fail, zeroAsOctet)
  /\ pc' = "ser_got"
  /\ UNCHANGED <<sigVars, dst, soff, sval, sfail>>

\* Octet strings of PUBKEY_COMPRESSED_SIZE_BYTES octets handed to GetNumber: a
\* first octet, then x with a leading octet xhi and a last octet xlo.  They
\* cover every first octet form, x off the curve and x not below the field prime.
EncFirst == {0, 1, 2, 3, 4, 5}
EncXHigh == {0, 2}
EncXLow == 0..FieldP

Encoding(b0, xhi, xlo) ==
  <<b0, xhi>> \o Zeros(PUBKEY_COMPRESSED_SIZE_BYTES - 3) \o <<xlo>>

\* GetNumber(src, offset, PUBKEY_COMPRESSED_SIZE_BYTES) on octets of any origin
\* (PubKey::Deserialize of a received key), found at offset in src.
SerDecode ==
  /\ pc = "ser_idle"
  /\ \E b0 \in EncFirst, xhi \in EncXHigh, xlo \in EncXLow,
        fail \in {"none", "alloc"}, zeroAsOctet \in BOOLEAN :
       LET src == [i \in 1..soff |-> 255] \o Encoding(b0, xhi, xlo)
       IN  /\ dst' = src
           /\ gfail' = fail
           /\ got' = ECPOINT_GetNumber(src, soff, PUBKEY_COMPRESSED_SIZE_BYTES, fail, zeroAsOctet)
  /\ pc' = "ser_decoded"
  /\ UNCHANGED <<sigVars, soff, sval, sfail>>

NextSer == SerSet \/ SerGet \/ SerDecode

SpecSer == InitSer /\ [][NextSer]_vars

\* ------------------------------------------------------------ curve context
callVars == <<message, offset, size, privkey, pubkey, pc, k, result, sha, retried,
              sret, first, ver, serVars>>

\* The program is loaded: objects of static storage duration are zeroed, none
\* of their initializers has run.
InitCurve ==
  /\ message = <<>> /\ offset = U32(0, 0) /\ size = U32(0, 0)
  /\ privkey = 1 /\ pubkey = GTable[1]
  /\ k = 0 /\ result = [r |-> 0, s |-> 0] /\ sha = HashIV /\ retried = FALSE
  /\ sret = "none" /\ first = NoSig /\ ver = NoVer
  /\ pc = "idle"
  /\ dst = <<>> /\ soff = 0 /\ sval = Infinity /\ sfail = "none"
  /\ got = NoPoint /\ gfail = "none"
  /\ m_curve = NullCurve
  /\ cinit = "loaded"
  /\ built = 0
  /\ seen = NoCalls

\* make_unique<Schnorr::Curve>(): Curve() runs; bad_alloc or exception thrown
\* out of the initializer ends the program (std::terminate).
CurveConstruct ==
  /\ cinit = "loaded"
  /\ built' = built + 1
  /\ \E ok \in BOOLEAN : cinit' = IF ok THEN "constructed" ELSE "terminated"
  /\ UNCHANGED <<m_curve, seen, callVars>>

\* The initializer's value is stored in m_curve.
CurveAssign ==
  /\ cinit = "constructed"
  /\ m_curve' = ReadyCurve
  /\ cinit' = "initialized"
  /\ UNCHANGED <<built, seen, callVars>>

\* What a call of getter fn gives on m_curve as it stands.  Through a null
\* m_curve the call crashes or returns what lies at that address.
NullDeref == {"crash", "garbage"}

Call(c, fn, how) ==
  [n     |-> seen[c].n + 1,
   fn    |-> fn,
   how   |-> how,
   group |-> IF how = "value" /\ fn = "GetCurveGroup" THEN GetCurveGroup(m_curve) ELSE NoGroup,
   order |-> IF how = "value" /\ fn = "GetCurveOrder" THEN GetCurveOrder(m_curve) ELSE 0]

Access(c, fn) ==
  /\ seen[c].n < MaxCalls
  /\ \E how \in (IF m_curve.null THEN NullDeref ELSE {"value"}) :
       /\ seen' = [seen EXCEPT ![c] = Call(c, fn, how)]
       /\ cinit' = IF how = "crash" THEN "crashed" ELSE cinit
  /\ UNCHANGED <<m_curve, built, callVars>>

\* The initializer of an object in another translation unit calls a getter.
\* Initializers of different translation units run in an order the build
\* fixes: this one runs before that of m_curve or after it.
OtherInitAccess ==
  /\ cinit \in {"loaded", "initialized"}
  /\ \E fn \in Getters : Access("other_tu", fn)

\* Initialization is over: main runs and starts its threads.
MainStart ==
  /\ cinit = "initialized"
  /\ cinit' = "main"
  /\ UNCHANGED <<m_curve, built, seen, callVars>>

\* A thread calls a getter.
ThreadAccess ==
  /\ cinit = "main"
  /\ \E t \in Threads, fn \in Getters : Access(t, fn)

NextCurve == CurveConstruct \/ CurveAssign \/ OtherInitAccess \/ MainStart \/ ThreadAccess

SpecCurve == InitCurve /\ [][NextCurve]_vars

\* ------------------------------------------------------------ properties
SignReturned == pc = "sign_done"
Verified == ver.kind # "none"
SignFailed == sret \in {"false", "threw"}

\* The acceptance condition of a signature (r, s) under P over the octets
\* data: 1 <= r, s < n, Q' = sG + rP is not the identity and
\* H(encode(Q') || encode(P) || data) mod n = r.
ValidOver(sig, pub, data) ==
  /\ sig.r \in 1..CurveOrder-1
  /\ sig.s \in 1..CurveOrder-1
  /\ LET Q == PointAdd(ScalarMul(sig.s, Generator), ScalarMul(sig.r, pub))
     IN  /\ Q # Infinity
         /\ ShaFinalize(ChallengeInput(HashIV, Q, pub, data)) % CurveOrder = sig.r

WindowBytes(off, sz) == SubSeq(message, off.lo + 1, off.lo + sz.lo)

\* C1: a signature that Sign returned for a window inside the message verifies
\* under the same message, window and public key P = d*G (no library call
\* failing in Verify).
C1_RoundTrip ==
  (ver.kind = "signed" /\ WindowInside(Len(message), offset, size) /\ ver.fail = "none")
    => ver.ret = "true"

C1_Witness ==
  /\ ver.kind = "signed" /\ ver.fail = "none" /\ ver.ret = "true"
  /\ Len(message) = 2 /\ offset = U32(0, 1) /\ size = U32(0, 1)
  /\ retried

C3_VerifyIff ==
  (Verified /\ WindowInside(Len(message), ver.off, ver.size) /\ ver.fail = "none")
    => (ver.ret = "true" <=> ValidOver(ver.sig, ver.pub, WindowBytes(ver.off, ver.size)))

\* C3 amended: Verify returns true exactly when the message is not empty, the
\* window passes the check of the call, no library call fails, P is not the
\* identity, and (r, s) is valid over the octets read from the window;
\* otherwise it returns false, unless the read of a window that lies outside
\* the message crashes.
C3_VerifyIffNonEmpty ==
  Verified =>
    /\ ver.ret = "true" <=>
         /\ Len(message) # 0
         /\ ~WindowRejected(Len(message), ver.off, ver.size)
         /\ ver.fail = "none"
         /\ ~ver.pub.inf
         /\ ~ver.read.crash
         /\ ValidOver(ver.sig, ver.pub, ver.read.bytes)
    /\ ver.ret \in {"true", "false", "crash"}
    /\ ver.ret = "crash" => ReadsOutOfBounds(message, ver.off, ver.size)

C3_Witness ==
  /\ ver.kind = "any" /\ ver.ret = "true" /\ ver.pub = pubkey
  /\ WindowInside(Len(message), ver.off, ver.size) /\ ver.size = U32(0, 1)

\* C4: whenever Sign returns true, 1 <= r < n and 1 <= s < n.
C4_SignRange ==
  sret = "true" => (result.r \in 1..CurveOrder-1 /\ result.s \in 1..CurveOrder-1)

C4_Witness == SignReturned /\ sret = "true" /\ retried

\* C6 as stated: the aggregated signature (r, s) of two signers, with Q_agg not
\* the identity, r # 0 and s # 0, verifies under P_agg = P_1 + P_2.
C6_MultiSigVerifies ==
  (ver.kind = "multisig" /\ ver.fail = "none") => ver.ret = "true"

\* C6 amended: it verifies provided the message is not empty and P_agg is not
\* the identity.
C6_MultiSigVerifiesValidKey ==
  (ver.kind = "multisig" /\ ver.fail = "none" /\ Len(message) # 0 /\ ~ver.pub.inf)
    => ver.ret = "true"

C6_Witness ==
  /\ ver.kind = "multisig" /\ ver.fail = "none" /\ ver.ret = "true"
  /\ Len(message) = 2 /\ ver.pub # pubkey

\* C7: Verify returns false for an empty message, a window with offset + size
\* beyond the message length, r or s out of range, and any failing library call.
C7_VerifyReturnsFalse ==
  (Verified /\ (\/ Len(message) = 0
                \/ ~WindowInside(Len(message), ver.off, ver.size)
                \/ ver.sig.r \notin 1..CurveOrder-1
                \/ ver.sig.s \notin 1..CurveOrder-1
                \/ ver.fail # "none"))
    => ver.ret = "false"

\* C8: Sign fails for every offset and size whose sum in the integers exceeds
\* the message length.
C8_SignRejectsWindow ==
  (SignReturned /\ ~WindowInside(Len(message), offset, size)) => SignFailed

\* C9: Sign fails when the bytes to sign are empty: an empty message, or
\* size = 0.
C9_SignRejectsEmpty ==
  (SignReturned /\ (Len(message) = 0 \/ size = U32(0, 0))) => SignFailed

\* C10: SetNumber(dst, offset, 33, Q) of a point Q other than the identity and
\* then GetNumber(dst, offset, 33) gives a point equal to Q (no library call
\* failing), for every buffer and offset.
C10_PointRoundTrip ==
  (pc = "ser_got" /\ ~sval.inf /\ sfail = "none" /\ gfail = "none")
    => (~got.null /\ got.pt = sval)

C10_Witness ==
  /\ pc = "ser_got" /\ ~sval.inf /\ sfail = "none" /\ gfail = "none"
  /\ ~got.null /\ got.pt = sval
  /\ soff = 2 /\ Len(dst) = soff + PUBKEY_COMPRESSED_SIZE_BYTES /\ sval.y % 2 = 1

\* The octets GetNumber was handed: PUBKEY_COMPRESSED_SIZE_BYTES octets at soff.
Decoded == SubSeq(dst, soff + 1, soff + PUBKEY_COMPRESSED_SIZE_BYTES)

\* The octets SetNumber writes for the identity point.
IdentityEncoding == Zeros(PUBKEY_COMPRESSED_SIZE_BYTES)

\* x of a compressed encoding is the abscissa of no point of the curve.
XOffCurve(enc) ==
  \/ ~XInField(Tail(enc))
  \/ \A py \in 0..FieldP-1 : ~OnCurve(BinToInt(StripZeros(Tail(enc))), py)

InvalidEncoding(enc) ==
  \/ enc = IdentityEncoding
  \/ enc[1] \notin {2, 3}
  \/ XOffCurve(enc)

\* C11: GetNumber gives no point for 33 octets that are the encoding of the
\* identity point, have a first octet other than 0x02 and 0x03, or whose x is
\* not on the curve.
C11_DecodeRejects ==
  (pc = "ser_decoded" /\ InvalidEncoding(Decoded)) => got.null

\* Some nonce gives a signature that the round accepts: r # 0 and s # 0.
Signable ==
  \E kk \in 1..CurveOrder-1 :
    LET r == Challenge(ChallengeInput(HashIV, GTable[kk], pubkey, WindowBytes(offset, size)))
    IN  r # 0 /\ (kk - r * privkey) % CurveOrder # 0

\* Sign is in its rejection loop, on a non-empty message and a window inside it.
InLoop == pc \in {"sign_nonce", "sign_round"} /\ WindowInside(Len(message), offset, size)

SawCurve(c) ==
  /\ seen[c].how = "value"
  /\ seen[c].fn = "GetCurveGroup" => seen[c].group = TheCurve.m_group
  /\ seen[c].fn = "GetCurveOrder" => seen[c].order = CurveOrder

\* C13: the context is constructed exactly once, every call of GetCurveGroup
\* and GetCurveOrder (the first included) observes the initialized group and
\* its order, and no call modifies them.
C13_InitOnceAlwaysReady ==
  /\ built <= 1
  /\ \A c \in Callers : seen[c].n > 0 => (built = 1 /\ SawCurve(c))
  /\ ~m_curve.null => m_curve = ReadyCurve

====
